---- MODULE Spec2Model ----
(***************************************************************************)
(* SpecTree documentation audit: scripts/audit-tool-docs.py and            *)
(* scripts/extract-tool-names.py.                                          *)
(*                                                                         *)
(* Texts are sequences of one-character strings; the two regular           *)
(* expressions of the scripts are evaluated character by character, the    *)
(* way Python's re module evaluates them (leftmost match, greedy and lazy  *)
(* quantifiers, non-overlapping scan).                                     *)
(***************************************************************************)
EXTENDS Integers, Sequences, FiniteSets

VARIABLES
    pc,                 \* position of the running script
    tool_files,         \* glob result for packages/mcp/src/tools/**/*.ts, in glob order
    src_text,           \* path -> content of each source file
    doc_files,          \* glob result for docs/mcp/*.md, in glob order
    doc_text,           \* path -> content of each documentation file
    source_tools,       \* audit-tool-docs.py: tool name -> record
    doc_tools,          \* audit-tool-docs.py: tool name -> list of document names
    summary,            \* the three counts printed under SUMMARY
    not_in_source,      \* list built by the first report loop
    deprecated_in_docs, \* list built by the second report loop
    not_documented,     \* list built by the third report loop
    verdict,            \* "none" | "FAILED" | "PASSED"
    tools               \* extract-tool-names.py: list of entries

vars == <<pc, tool_files, src_text, doc_files, doc_text, source_tools, doc_tools,
          summary, not_in_source, deprecated_in_docs, not_documented, verdict, tools>>

----------------------------------------------------------------------------
(* Characters and string literals of the scripts *)

WARN == "U+26A0"
VS16 == "U+FE0F"
NL   == "\n"
QQ   == "\""

Lower ==
    {"a","b","c","d","e","f","g","h","i","j","k","l","m",
     "n","o","p","q","r","s","t","u","v","w","x","y","z"}

\* The characters of the model's texts in code-point order (Python compares
\* strings by code point).
CodePoints ==
    <<NL, " ", QQ, "'", "(", ")", ",", "-", ".", "/", ":", ";",
      "A", "C", "D", "E", "P", "R", "S", "T", "_",
      "a","b","c","d","e","f","g","h","i","j","k","l","m",
      "n","o","p","q","r","s","t","u","v","w","x","y","z",
      "{", "}", WARN, VS16>>

Ord(c) == CHOOSE i \in 1..Len(CodePoints) : CodePoints[i] = c

IsSpace(c) == c \in {" ", NL}
IsQuote(c) == c \in {QQ, "'"}

REGISTER_TOOL ==
    <<"s","e","r","v","e","r",".","r","e","g","i","s","t","e","r","T","o","o","l","(">>
DESCRIPTION_KEY == <<"d","e","s","c","r","i","p","t","i","o","n",":">>
PREFIX == <<"s","p","e","c","t","r","e","e","_","_">>
DEPRECATED == <<"D","E","P","R","E","C","A","T","E","D">>
GLYPH == <<WARN, VS16>>
ELLIPSIS == <<".", ".", ".">>

DeprecationWindow == 200
ExcerptLen == 100

----------------------------------------------------------------------------
(* Python string primitives *)

Min(a, b) == IF a < b THEN a ELSE b

Least(S) == CHOOSE x \in S : \A y \in S : x <= y

\* p occurs in s at (1-based) position i
Lit(s, i, p) ==
    /\ i >= 1
    /\ i + Len(p) - 1 <= Len(s)
    /\ \A k \in 1..Len(p) : s[i + k - 1] = p[k]

\* s[a:b] for 0 <= a
PySlice(s, a, b) == SubSeq(s, a + 1, Min(b, Len(s)))

\* p in s
Contains(s, p) == \E i \in 1..(Len(s) - Len(p) + 1) : Lit(s, i, p)

\* s.find(p) + 1, or 0 when p does not occur
Find(s, p) ==
    LET hits == {i \in 1..(Len(s) - Len(p) + 1) : Lit(s, i, p)}
    IN  IF hits = {} THEN 0 ELSE Least(hits)

\* s.startswith(p)
StartsWith(s, p) == Lit(s, 1, p)

\* a < b on strings
RECURSIVE LexLess(_, _)
LexLess(a, b) ==
    IF b = <<>> THEN FALSE
    ELSE IF a = <<>> THEN TRUE
    ELSE IF Head(a) = Head(b) THEN LexLess(Tail(a), Tail(b))
    ELSE Ord(Head(a)) < Ord(Head(b))

RECURSIVE Insert(_, _)
Insert(x, seq) ==
    IF seq = <<>> THEN <<x>>
    ELSE IF LexLess(x, Head(seq)) THEN <<x>> \o seq
    ELSE <<Head(seq)>> \o Insert(x, Tail(seq))

RECURSIVE InsertionSort(_)
InsertionSort(seq) ==
    IF seq = <<>> THEN <<>>
    ELSE Insert(Head(seq), InsertionSort(Tail(seq)))

\* sorted(seq) on a list of strings; sorted(d.keys()) is Sorted of any
\* enumeration of the keys
Sorted(seq) == InsertionSort(seq)

RECURSIVE SetToSeq(_)
SetToSeq(S) ==
    IF S = {} THEN <<>>
    ELSE LET x == CHOOSE x \in S : TRUE IN <<x>> \o SetToSeq(S \ {x})

SortedKeys(d) == Sorted(SetToSeq(DOMAIN d))

\* d[k] = v on a dict
Put(d, k, v) == [x \in (DOMAIN d) \cup {k} |-> IF x = k THEN v ELSE d[x]]

EmptyDict == [x \in {} |-> <<>>]

\* Path(p).name
Basename(p) ==
    LET slashes == {i \in 1..Len(p) : p[i] = "/"}
    IN  IF slashes = {} THEN p
        ELSE SubSeq(p, (CHOOSE i \in slashes : \A j \in slashes : j <= i) + 1, Len(p))

----------------------------------------------------------------------------
(* The registration pattern of audit-tool-docs.py                          *)
(*   server\.registerTool\(\s*["']([^"']+)["'],\s*\{[^}]*?description:      *)
(*   \s*["']([^"']+)                                                        *)

RECURSIVE SkipSpace(_, _)
SkipSpace(s, i) ==
    IF i <= Len(s) /\ IsSpace(s[i]) THEN SkipSpace(s, i + 1) ELSE i

\* end of the greedy run [^"']* starting at i: the first quote at or after i,
\* or Len(s) + 1
RECURSIVE RunNonQuote(_, _)
RunNonQuote(s, i) ==
    IF i <= Len(s) /\ ~IsQuote(s[i]) THEN RunNonQuote(s, i + 1) ELSE i

\* description:\s*["'][^"']  matches at q
DescriptionAt(s, q) ==
    /\ Lit(s, q, DESCRIPTION_KEY)
    /\ LET r == SkipSpace(s, q + Len(DESCRIPTION_KEY))
       IN  /\ r + 1 <= Len(s)
           /\ IsQuote(s[r])
           /\ ~IsQuote(s[r + 1])

\* the lazy [^}]*? : the first q >= i where the rest of the pattern matches,
\* with no "}" in s[i..q-1]; 0 when there is none
RECURSIVE LazyToDescription(_, _)
LazyToDescription(s, i) ==
    IF i > Len(s) THEN 0
    ELSE IF DescriptionAt(s, i) THEN i
    ELSE IF s[i] = "}" THEN 0
    ELSE LazyToDescription(s, i + 1)

NoMatch == [start |-> 0, end |-> 0, name |-> <<>>, desc |-> <<>>]

\* the match of the whole pattern that starts at i, or NoMatch.
\* start is match.start() + 1, end is match.end() + 1.
MatchAt(s, i) ==
    IF ~Lit(s, i, REGISTER_TOOL) THEN NoMatch
    ELSE
    LET p2 == SkipSpace(s, i + Len(REGISTER_TOOL)) IN
    IF p2 > Len(s) \/ ~IsQuote(s[p2]) THEN NoMatch
    ELSE
    LET p3 == RunNonQuote(s, p2 + 1) IN
    IF p3 = p2 + 1 \/ p3 + 1 > Len(s) \/ s[p3 + 1] # "," THEN NoMatch
    ELSE
    LET p5 == SkipSpace(s, p3 + 2) IN
    IF p5 > Len(s) \/ s[p5] # "{" THEN NoMatch
    ELSE
    LET q == LazyToDescription(s, p5 + 1) IN
    IF q = 0 THEN NoMatch
    ELSE
    LET r == SkipSpace(s, q + Len(DESCRIPTION_KEY))
        e == RunNonQuote(s, r + 1)
    IN  [start |-> i, end |-> e,
         name |-> SubSeq(s, p2 + 1, p3 - 1),
         desc |-> SubSeq(s, r + 1, e - 1)]

\* re.finditer: leftmost matches, each scan resuming at the previous match's end
RECURSIVE FindIter(_, _)
FindIter(s, pos) ==
    LET starts == {i \in pos..Len(s) : MatchAt(s, i).start # 0}
    IN  IF starts = {} THEN <<>>
        ELSE LET m == MatchAt(s, Least(starts))
             IN  <<m>> \o FindIter(s, m.end)

----------------------------------------------------------------------------
(* audit-tool-docs.py: extract_tools_from_source *)

\* content[desc_start:desc_start+200], desc_start = match.start()
\* (the slice "preceding" of line 28 is computed and never read)
Window(content, m) == PySlice(content, m.start - 1, m.start - 1 + DeprecationWindow)

IsDeprecated(content, m) ==
    \/ Contains(Window(content, m), DEPRECATED)
    \/ Contains(Window(content, m), GLYPH)

\* variant: the cut is taken at >= 100 characters
ExcerptOffByOne(d) ==
    IF Len(d) >= ExcerptLen THEN PySlice(d, 0, ExcerptLen) \o ELLIPSIS ELSE d

\* match.group(2)[:100] + "..." if len(match.group(2)) > 100 else match.group(2)
Excerpt(d) ==
    IF Len(d) > ExcerptLen THEN PySlice(d, 0, ExcerptLen) \o ELLIPSIS ELSE d

ToolRecord(path, content, m) ==
    [file |-> path, deprecated |-> IsDeprecated(content, m), description |-> Excerpt(m.desc)]

\* variant: the startswith("spectree__") test is missing
RECURSIVE ScanMatchesUnfiltered(_, _, _, _)
ScanMatchesUnfiltered(acc, path, content, matches) ==
    IF matches = <<>> THEN acc
    ELSE LET m == Head(matches)
         IN  ScanMatchesUnfiltered(Put(acc, m.name, ToolRecord(path, content, m)),
                                   path, content, Tail(matches))

\* the body of "for match in matches"
RECURSIVE ScanMatches(_, _, _, _)
ScanMatches(acc, path, content, matches) ==
    IF matches = <<>> THEN acc
    ELSE LET m == Head(matches)
             next == IF StartsWith(m.name, PREFIX)
                     THEN Put(acc, m.name, ToolRecord(path, content, m))
                     ELSE acc
         IN  ScanMatches(next, path, content, Tail(matches))

\* the body of "for file_path in sorted(tool_files)"
RECURSIVE ScanSourceFiles(_, _, _)
ScanSourceFiles(acc, paths, text) ==
    IF paths = <<>> THEN acc
    ELSE LET path == Head(paths)
         IN  ScanSourceFiles(
                 ScanMatches(acc, path, text[path], FindIter(text[path], 1)),
                 Tail(paths), text)

\* variant: the files are scanned in glob order, without sorted()
extract_tools_from_source_unsorted(files, text) ==
    ScanSourceFiles(EmptyDict, files, text)

extract_tools_from_source(files, text) ==
    ScanSourceFiles(EmptyDict, Sorted(files), text)

----------------------------------------------------------------------------
(* audit-tool-docs.py: extract_tools_from_docs *)

IsNameChar(c) == c \in Lower \cup {"_"}

RECURSIVE RunNameChars(_, _)
RunNameChars(s, i) ==
    IF i <= Len(s) /\ IsNameChar(s[i]) THEN RunNameChars(s, i + 1) ELSE i

\* spectree__[a-z_]+ matches at i
MentionAt(s, i) ==
    /\ Lit(s, i, PREFIX)
    /\ i + Len(PREFIX) <= Len(s)
    /\ IsNameChar(s[i + Len(PREFIX)])

\* re.findall(r'spectree__[a-z_]+', content)
RECURSIVE FindAllMentions(_, _)
FindAllMentions(s, pos) ==
    LET starts == {i \in pos..Len(s) : MentionAt(s, i)}
    IN  IF starts = {} THEN <<>>
        ELSE LET b == Least(starts)
                 e == RunNameChars(s, b + Len(PREFIX))
             IN  <<SubSeq(s, b, e - 1)>> \o FindAllMentions(s, e)

Range(seq) == {seq[i] : i \in 1..Len(seq)}

\* variant: every match is recorded, without set()
RECURSIVE RecordMentionsNoSet(_, _, _)
RecordMentionsNoSet(acc, path, matches) ==
    IF matches = <<>> THEN acc
    ELSE LET x == Head(matches)
             old == IF x \in DOMAIN acc THEN acc[x] ELSE <<>>
         IN  RecordMentionsNoSet(Put(acc, x, Append(old, Basename(path))), path, Tail(matches))

\* for tool_name in set(matches): doc_mentions[tool_name].append(Path(doc_file).name)
RecordMentions(acc, path, matches) ==
    LET names == Range(matches)
    IN  [x \in (DOMAIN acc) \cup names |->
            (IF x \in DOMAIN acc THEN acc[x] ELSE <<>>)
            \o (IF x \in names THEN <<Basename(path)>> ELSE <<>>)]

\* the body of "for doc_file in sorted(doc_files)"
RECURSIVE ScanDocFiles(_, _, _)
ScanDocFiles(acc, paths, text) ==
    IF paths = <<>> THEN acc
    ELSE LET path == Head(paths)
         IN  ScanDocFiles(
                 RecordMentions(acc, path, FindAllMentions(text[path], 1)),
                 Tail(paths), text)

extract_tools_from_docs(files, text) ==
    ScanDocFiles(EmptyDict, Sorted(files), text)

----------------------------------------------------------------------------
(* audit-tool-docs.py: the report loops *)

\* sum(1 for t in source_tools.values() if t['deprecated'])
CountDeprecated(S) == Cardinality({k \in DOMAIN S : S[k].deprecated})

RECURSIVE SumLen(_, _)
SumLen(D, keys) ==
    IF keys = {} THEN 0
    ELSE LET k == CHOOSE k \in keys : TRUE IN Len(D[k]) + SumLen(D, keys \ {k})

\* variant: the documents' mentions are counted, not the unique tools
SummaryCountsMentions(S, D) ==
    [in_source |-> Cardinality(DOMAIN S),
     in_docs |-> SumLen(D, DOMAIN D),
     deprecated |-> CountDeprecated(S)]

SummaryCounts(S, D) ==
    [in_source |-> Cardinality(DOMAIN S),
     in_docs |-> Cardinality(DOMAIN D),
     deprecated |-> CountDeprecated(S)]

\* variant: the "not" of the membership test is missing
NotInSourceLoopInverted(S, D) ==
    LET Keep(k) == k \in DOMAIN S IN SelectSeq(SortedKeys(D), Keep)

\* for tool_name in sorted(doc_tools.keys()): if tool_name not in source_tools
NotInSourceLoop(S, D) ==
    LET Keep(k) == k \notin DOMAIN S IN SelectSeq(SortedKeys(D), Keep)

\* variant: the deprecated flag is not tested
DeprecatedInDocsLoopAnyFlag(S, D) ==
    LET Keep(k) == k \in DOMAIN S IN SelectSeq(SortedKeys(D), Keep)

\* ... if tool_name in source_tools and source_tools[tool_name]['deprecated']
DeprecatedInDocsLoop(S, D) ==
    LET Keep(k) == k \in DOMAIN S /\ S[k].deprecated IN SelectSeq(SortedKeys(D), Keep)

\* for tool_name in sorted(source_tools.keys()): if tool_name not in doc_tools
NotDocumentedLoop(S, D) ==
    LET Keep(k) == k \notin DOMAIN D IN SelectSeq(SortedKeys(S), Keep)

\* variant: undocumented tools fail the audit too
AuditVerdictStrict(nis, did, nd) ==
    IF nis # <<>> \/ did # <<>> \/ nd # <<>> THEN "FAILED" ELSE "PASSED"

\* if not_in_source or deprecated_in_docs: FAILED else: PASSED
AuditVerdict(nis, did, nd) ==
    IF nis # <<>> \/ did # <<>> THEN "FAILED" ELSE "PASSED"

----------------------------------------------------------------------------
(* audit-tool-docs.py: the script, top to bottom *)

ExtractToolsFromSource ==
    /\ pc = "source"
    /\ source_tools' = extract_tools_from_source(tool_files, src_text)
    /\ pc' = "docs"
    /\ UNCHANGED <<tool_files, src_text, doc_files, doc_text, doc_tools, summary,
                   not_in_source, deprecated_in_docs, not_documented, verdict, tools>>

ExtractToolsFromDocs ==
    /\ pc = "docs"
    /\ doc_tools' = extract_tools_from_docs(doc_files, doc_text)
    /\ pc' = "summary"
    /\ UNCHANGED <<tool_files, src_text, doc_files, doc_text, source_tools, summary,
                   not_in_source, deprecated_in_docs, not_documented, verdict, tools>>

PrintSummary ==
    /\ pc = "summary"
    /\ summary' = SummaryCounts(source_tools, doc_tools)
    /\ pc' = "not_in_source"
    /\ UNCHANGED <<tool_files, src_text, doc_files, doc_text, source_tools, doc_tools,
                   not_in_source, deprecated_in_docs, not_documented, verdict, tools>>

FindNotInSource ==
    /\ pc = "not_in_source"
    /\ not_in_source' = NotInSourceLoop(source_tools, doc_tools)
    /\ pc' = "deprecated_in_docs"
    /\ UNCHANGED <<tool_files, src_text, doc_files, doc_text, source_tools, doc_tools,
                   summary, deprecated_in_docs, not_documented, verdict, tools>>

FindDeprecatedInDocs ==
    /\ pc = "deprecated_in_docs"
    /\ deprecated_in_docs' = DeprecatedInDocsLoop(source_tools, doc_tools)
    /\ pc' = "not_documented"
    /\ UNCHANGED <<tool_files, src_text, doc_files, doc_text, source_tools, doc_tools,
                   summary, not_in_source, not_documented, verdict, tools>>

FindNotDocumented ==
    /\ pc = "not_documented"
    /\ not_documented' = NotDocumentedLoop(source_tools, doc_tools)
    /\ pc' = "results"
    /\ UNCHANGED <<tool_files, src_text, doc_files, doc_text, source_tools, doc_tools,
                   summary, not_in_source, deprecated_in_docs, verdict, tools>>

AuditResults ==
    /\ pc = "results"
    /\ verdict' = AuditVerdict(not_in_source, deprecated_in_docs, not_documented)
    /\ pc' = "done"
    /\ UNCHANGED <<tool_files, src_text, doc_files, doc_text, source_tools, doc_tools,
                   summary, not_in_source, deprecated_in_docs, not_documented, tools>>

----------------------------------------------------------------------------
(* extract-tool-names.py                                                   *)
(*   server\.registerTool\(\s*["']([^"']+)["']                              *)

\* the match of the name pattern that starts at i, or NoMatch
NameMatchAt(s, i) ==
    IF ~Lit(s, i, REGISTER_TOOL) THEN NoMatch
    ELSE
    LET p2 == SkipSpace(s, i + Len(REGISTER_TOOL)) IN
    IF p2 > Len(s) \/ ~IsQuote(s[p2]) THEN NoMatch
    ELSE
    LET p3 == RunNonQuote(s, p2 + 1) IN
    IF p3 = p2 + 1 \/ p3 > Len(s) THEN NoMatch
    ELSE [start |-> i, end |-> p3 + 1, name |-> SubSeq(s, p2 + 1, p3 - 1), desc |-> <<>>]

\* re.findall: the captured names, in scan order
RECURSIVE FindAllNames(_, _)
FindAllNames(s, pos) ==
    LET starts == {i \in pos..Len(s) : NameMatchAt(s, i).start # 0}
    IN  IF starts = {} THEN <<>>
        ELSE LET m == NameMatchAt(s, Least(starts))
             IN  <<m.name>> \o FindAllNames(s, m.end)

\* variant: the marker is looked for in the whole file
NameIsDeprecatedAnywhere(content, name) ==
    Contains(content, DEPRECATED)

\* "DEPRECATED" in content[:content.find(match)]
NameIsDeprecated(content, name) ==
    Contains(PySlice(content, 0, Find(content, name) - 1), DEPRECATED)

\* the body of "for match in matches"
RECURSIVE ListNames(_, _, _, _)
ListNames(acc, path, content, names) ==
    IF names = <<>> THEN acc
    ELSE LET n == Head(names)
             next == IF StartsWith(n, PREFIX)
                     THEN Append(acc, [name |-> n, file |-> path,
                                       deprecated |-> NameIsDeprecated(content, n)])
                     ELSE acc
         IN  ListNames(next, path, content, Tail(names))

\* the body of "for file_path in sorted(tool_files)"
RECURSIVE ListFiles(_, _, _)
ListFiles(acc, paths, text) ==
    IF paths = <<>> THEN acc
    ELSE LET path == Head(paths)
         IN  ListFiles(ListNames(acc, path, text[path], FindAllNames(text[path], 1)),
                       Tail(paths), text)

ExtractToolNames ==
    /\ pc = "names"
    /\ tools' = ListFiles(<<>>, Sorted(tool_files), src_text)
    /\ pc' = "names_done"
    /\ UNCHANGED <<tool_files, src_text, doc_files, doc_text, source_tools, doc_tools,
                   summary, not_in_source, deprecated_in_docs, not_documented, verdict>>

----------------------------------------------------------------------------
(* The files the scripts are run on *)

MaxBlocks == 2
MaxTokens == 3
MaxPipe == 2
MaxDescLen == 104
MaxNameBlocks == 3

TOOLS_DIR == <<"p","a","c","k","a","g","e","s","/","m","c","p","/","s","r","c","/","t","o","o","l","s","/">>
DOCS_DIR == <<"d","o","c","s","/","m","c","p","/">>
A_TS == TOOLS_DIR \o <<"a",".","t","s">>
B_TS == TOOLS_DIR \o <<"b",".","t","s">>
A_MD == DOCS_DIR \o <<"a",".","m","d">>
B_MD == DOCS_DIR \o <<"b",".","m","d">>

SEARCH == PREFIX \o <<"s","e","a","r","c","h">>
OLD_TOOL == PREFIX \o <<"o","l","d","_","t","o","o","l">>
TYPO_TOOL == PREFIX \o <<"t","y","p","o","_","t","o","o","l">>
BROKEN == PREFIX \o <<"b","r","o","k","e","n">>
OTHER_TOOL == <<"o","t","h","e","r","_","t","o","o","l">>

\* server.registerTool("<name>", { description: "<desc>" });
Registration(name, desc) ==
    REGISTER_TOOL \o <<QQ>> \o name \o <<QQ, ",", " ", "{", " ">>
    \o DESCRIPTION_KEY \o <<" ", QQ>> \o desc \o <<QQ, " ", "}", ")", ";", NL>>

PlainSearch == Registration(SEARCH, <<"f","i","n","d">>)
DeprecatedOld == Registration(OLD_TOOL, DEPRECATED \o <<":"," ","o","l","d">>)
GlyphSearch == Registration(SEARCH, GLYPH \o <<" ","g","o","n","e">>)
OtherDeprecated == Registration(OTHER_TOOL, DEPRECATED)
\* a registration with no description field: the pattern does not match it
NoDescription ==
    REGISTER_TOOL \o <<QQ>> \o BROKEN \o <<QQ, ",", " ", "{", "}", ")", ";", NL>>
\* a comment rule as long as the deprecation window
Rule == [i \in 1..DeprecationWindow |-> "-"] \o <<NL>>

SourceBlocks == <<PlainSearch, DeprecatedOld, GlyphSearch, OtherDeprecated, NoDescription, Rule>>
PipeBlocks == <<PlainSearch, DeprecatedOld, OtherDeprecated>>

DocTokens == <<SEARCH \o <<" ">>, OLD_TOOL \o <<NL>>, TYPO_TOOL \o <<".">>, PREFIX>>
PipeTokens == <<SEARCH \o <<" ">>, OLD_TOOL \o <<NL>>, TYPO_TOOL \o <<".">>>>

\* all sequences over S of length at most n
SeqsUpTo(S, n) == UNION {[1..k -> S] : k \in 0..n}

\* the text of file f: the pieces placed in f, in order
RECURSIVE TextOf(_, _, _)
TextOf(placing, f, pieces) ==
    IF placing = <<>> THEN <<>>
    ELSE (IF Head(placing)[1] = f THEN pieces[Head(placing)[2]] ELSE <<>>)
         \o TextOf(Tail(placing), f, pieces)

Orders(a, b) == {<<a, b>>, <<b, a>>}

Scenario1Docs == SEARCH \o <<" ">> \o OLD_TOOL \o <<NL>> \o TYPO_TOOL \o <<".">>

\* many source files, the documentation of Scenario 1
SourceInputs ==
    {[tool_files |-> order,
      src_text |-> [f \in {A_TS, B_TS} |-> TextOf(placing, f, SourceBlocks)],
      doc_files |-> <<A_MD>>,
      doc_text |-> [f \in {A_MD} |-> Scenario1Docs]] :
        placing \in SeqsUpTo({A_TS, B_TS} \X (1..Len(SourceBlocks)), MaxBlocks),
        order \in Orders(A_TS, B_TS)}

\* many documents, one source file registering a deprecated and a live tool
DocInputs ==
    {[tool_files |-> <<A_TS>>,
      src_text |-> [f \in {A_TS} |-> DeprecatedOld \o PlainSearch],
      doc_files |-> order,
      doc_text |-> [f \in {A_MD, B_MD} |-> TextOf(placing, f, DocTokens)]] :
        placing \in SeqsUpTo({A_MD, B_MD} \X (1..Len(DocTokens)), MaxTokens),
        order \in Orders(A_MD, B_MD)}

\* one source file and one document, both varying
PipeInputs ==
    {[tool_files |-> <<A_TS>>,
      src_text |-> [f \in {A_TS} |-> TextOf(sp, A_TS, PipeBlocks)],
      doc_files |-> <<A_MD>>,
      doc_text |-> [f \in {A_MD} |-> TextOf(dp, A_MD, PipeTokens)]] :
        sp \in SeqsUpTo({A_TS} \X (1..Len(PipeBlocks)), MaxPipe),
        dp \in SeqsUpTo({A_MD} \X (1..Len(PipeTokens)), MaxPipe)}

\* one registration whose description has n characters
LongInputs ==
    {[tool_files |-> <<A_TS>>,
      src_text |-> [f \in {A_TS} |-> Registration(SEARCH, [i \in 1..n |-> "x"])],
      doc_files |-> <<A_MD>>,
      doc_text |-> [f \in {A_MD} |-> SEARCH]] :
        n \in 1..MaxDescLen}

AuditInputs == SourceInputs \cup DocInputs \cup PipeInputs \cup LongInputs

Init ==
    /\ pc = "source"
    /\ \E in \in AuditInputs :
        /\ tool_files = in.tool_files
        /\ src_text = in.src_text
        /\ doc_files = in.doc_files
        /\ doc_text = in.doc_text
    /\ source_tools = EmptyDict
    /\ doc_tools = EmptyDict
    /\ summary = [in_source |-> 0, in_docs |-> 0, deprecated |-> 0]
    /\ not_in_source = <<>>
    /\ deprecated_in_docs = <<>>
    /\ not_documented = <<>>
    /\ verdict = "none"
    /\ tools = <<>>

Next ==
    \/ ExtractToolsFromSource
    \/ ExtractToolsFromDocs
    \/ PrintSummary
    \/ FindNotInSource
    \/ FindDeprecatedInDocs
    \/ FindNotDocumented
    \/ AuditResults

Spec == Init /\ [][Next]_vars

\* extract-tool-names.py is run on source files made of registrations, a bare
\* mention of a tool name and a bare DEPRECATED word
NameBlocks == <<PlainSearch, DeprecatedOld, OtherDeprecated, SEARCH \o <<NL>>, DEPRECATED \o <<NL>>>>

NameInputs ==
    {[tool_files |-> <<B_TS, A_TS>>,
      src_text |-> [f \in {A_TS, B_TS} |-> TextOf(placing, f, NameBlocks)]] :
        placing \in SeqsUpTo({A_TS, B_TS} \X (1..Len(NameBlocks)), MaxNameBlocks)}

InitNames ==
    /\ pc = "names"
    /\ \E in \in NameInputs :
        /\ tool_files = in.tool_files
        /\ src_text = in.src_text
    /\ doc_files = <<>>
    /\ doc_text = EmptyDict
    /\ source_tools = EmptyDict
    /\ doc_tools = EmptyDict
    /\ summary = [in_source |-> 0, in_docs |-> 0, deprecated |-> 0]
    /\ not_in_source = <<>>
    /\ deprecated_in_docs = <<>>
    /\ not_documented = <<>>
    /\ verdict = "none"
    /\ tools = <<>>

NextNames == ExtractToolNames

SpecNames == InitNames /\ [][NextNames]_vars

----------------------------------------------------------------------------
(* Properties *)

KeysS == DOMAIN source_tools
KeysD == DOMAIN doc_tools
Documented == KeysS \cap KeysD

NoRepeats(seq) == \A i, j \in 1..Len(seq) : i # j => seq[i] # seq[j]

AfterNotInSource == pc \in {"deprecated_in_docs", "not_documented", "results", "done"}
AfterDeprecatedInDocs == pc \in {"not_documented", "results", "done"}
AfterNotDocumented == pc \in {"results", "done"}
\* extract_tools_from_source has just returned
SourceExtracted == pc = "docs"
\* extract_tools_from_docs has just returned
DocsExtracted == pc = "summary"

\* the registrations the pattern finds in file f
Registrations(f) == FindIter(src_text[f], 1)

\* the files that register tool k
RegisteringFiles(k) ==
    {f \in Range(tool_files) : \E i \in 1..Len(Registrations(f)) : Registrations(f)[i].name = k}

\* the last registration of k in file f
LastRegistration(f, k) ==
    LET regs == Registrations(f)
        at == {i \in 1..Len(regs) : regs[i].name = k}
    IN  regs[CHOOSE i \in at : \A j \in at : j <= i]

\* the registration whose record the mapping keeps for k
KeptRegistration(k) == LastRegistration(source_tools[k].file, k)

Reorderings(seq) ==
    {p \in [1..Len(seq) -> Range(seq)] : Range(p) = Range(seq)}

\* C1: once the report loops have run, notInSource is exactly keys(D) \ keys(S)
\* and undocumented is exactly keys(S) \ keys(D); notInSource shares no
\* identifier with keys(S), undocumented none with keys(D), and the two are
\* disjoint.
C1_DifferenceSets ==
    /\ AfterNotInSource =>
        /\ Range(not_in_source) = KeysD \ KeysS
        /\ NoRepeats(not_in_source)
        /\ Range(not_in_source) \cap KeysS = {}
    /\ AfterNotDocumented =>
        /\ Range(not_documented) = KeysS \ KeysD
        /\ NoRepeats(not_documented)
        /\ Range(not_documented) \cap KeysD = {}
        /\ Range(not_in_source) \cap Range(not_documented) = {}

C1_Witness ==
    /\ pc = "done"
    /\ not_in_source # <<>>
    /\ not_documented # <<>>
    /\ Documented # {}

\* C2: the verdict is FAILED exactly when notInSource or deprecatedInDocs is
\* non-empty; undocumented tools never change it, and with no tool in source and
\* none in the documents the audit PASSES.
C2_Verdict ==
    pc = "done" =>
        /\ verdict \in {"FAILED", "PASSED"}
        /\ verdict = "FAILED" <=> (not_in_source # <<>> \/ deprecated_in_docs # <<>>)
        /\ (not_in_source = <<>> /\ deprecated_in_docs = <<>>) => verdict = "PASSED"
        /\ (KeysS = {} /\ KeysD = {}) => verdict = "PASSED"

C2_Witness ==
    /\ pc = "done"
    /\ verdict = "PASSED"
    /\ Len(not_documented) >= 1
    /\ Documented # {}

\* C3: deprecatedInDocs is exactly the identifiers in keys(D) and keys(S) whose
\* source record is deprecated: an undocumented deprecated tool is not in it, nor
\* is a documented tool whose record is not deprecated.
C3_DeprecatedInDocs ==
    AfterDeprecatedInDocs =>
        /\ Range(deprecated_in_docs) = {k \in Documented : source_tools[k].deprecated}
        /\ NoRepeats(deprecated_in_docs)
        /\ \A k \in KeysS \ KeysD : k \notin Range(deprecated_in_docs)
        /\ \A k \in Documented :
               ~source_tools[k].deprecated => k \notin Range(deprecated_in_docs)

C3_Witness ==
    /\ pc = "done"
    /\ deprecated_in_docs # <<>>
    /\ \E k \in Documented : ~source_tools[k].deprecated

\* C4: when several files register an identifier, the record kept is the one of
\* the file whose path is greatest in sorted order, whatever order the glob
\* supplies the files in; the mapping is the same for every permutation of the
\* file list.
C4_LastSortedFileWins ==
    SourceExtracted =>
        /\ \A k \in KeysS :
            /\ source_tools[k].file \in RegisteringFiles(k)
            /\ \A f \in RegisteringFiles(k) :
                   f = source_tools[k].file \/ LexLess(f, source_tools[k].file)
            /\ source_tools[k] =
                   ToolRecord(source_tools[k].file, src_text[source_tools[k].file],
                              KeptRegistration(k))
        /\ \A p \in Reorderings(tool_files) :
               extract_tools_from_source(p, src_text) = source_tools

\* b.ts is supplied before a.ts, both register the same tool with different
\* deprecation flags, and the record kept is b.ts's
C4_Witness ==
    /\ pc = "docs"
    /\ tool_files = <<B_TS, A_TS>>
    /\ \E k \in KeysS :
        /\ RegisteringFiles(k) = {A_TS, B_TS}
        /\ IsDeprecated(src_text[A_TS], LastRegistration(A_TS, k))
             # IsDeprecated(src_text[B_TS], LastRegistration(B_TS, k))
        /\ source_tools[k].file = B_TS
        /\ source_tools[k].deprecated = IsDeprecated(src_text[B_TS], LastRegistration(B_TS, k))

\* the documents whose text mentions k
MentioningDocs(k) ==
    {f \in Range(doc_files) : k \in Range(FindAllMentions(doc_text[f], 1))}

\* how often document f mentions k
MentionCount(f, k) ==
    LET ms == FindAllMentions(doc_text[f], 1)
    IN  Cardinality({i \in 1..Len(ms) : ms[i] = k})

\* C5: the document list of every identifier holds each document's name at most
\* once however often the document mentions it, holds a name only if that
\* document mentions the identifier, and is in sorted order.
C5_DocLists ==
    DocsExtracted =>
        \A k \in KeysD :
            /\ NoRepeats(doc_tools[k])
            /\ Range(doc_tools[k]) = {Basename(f) : f \in MentioningDocs(k)}
            /\ \A f \in MentioningDocs(k) : Contains(doc_text[f], k)
            /\ \A i, j \in 1..Len(doc_tools[k]) :
                   i < j => LexLess(doc_tools[k][i], doc_tools[k][j])

\* one document mentions an identifier three times and is listed once
C5_Witness ==
    /\ DocsExtracted
    /\ \E k \in KeysD : \E f \in Range(doc_files) :
        /\ MentionCount(f, k) = 3
        /\ doc_tools[k] = <<Basename(f)>>

\* the text of a registration: from its match start up to the next match start
\* in the file (or the end of the file)
OwnText(f, m) ==
    LET later == {r.start : r \in {x \in Range(Registrations(f)) : x.start > m.start}}
        stop == IF later = {} THEN Len(src_text[f]) + 1 ELSE Least(later)
    IN  SubSeq(src_text[f], m.start, stop - 1)

HasMarker(text) == Contains(text, DEPRECATED) \/ Contains(text, GLYPH)

\* C6: a record is deprecated only when a deprecation marker belongs to the
\* tool's own registration, and a registration whose description carries a
\* marker gives a deprecated record, wherever the file's other registrations
\* are.
C6_OwnMarkerOnly ==
    SourceExtracted =>
        \A k \in KeysS :
            /\ source_tools[k].deprecated
                   => HasMarker(OwnText(source_tools[k].file, KeptRegistration(k)))
            /\ HasMarker(KeptRegistration(k).desc) => source_tools[k].deprecated

\* C7: every key of the source mapping starts with spectree__ (other
\* registrations produce no record), and so does every identifier of
\* notInSource, deprecatedInDocs and undocumented.
C7_PrefixFilter ==
    /\ \A k \in KeysS : StartsWith(k, PREFIX)
    /\ \A k \in Range(not_in_source) : StartsWith(k, PREFIX)
    /\ \A k \in Range(deprecated_in_docs) : StartsWith(k, PREFIX)
    /\ \A k \in Range(not_documented) : StartsWith(k, PREFIX)
    /\ SourceExtracted =>
           KeysS = {m.name : m \in {x \in UNION {Range(Registrations(f)) : f \in Range(tool_files)} :
                                        SubSeq(x.name, 1, Len(PREFIX)) = PREFIX}}

\* a registration under another name was matched and left no record, next to
\* one that did
C7_Witness ==
    /\ SourceExtracted
    /\ \E f \in Range(tool_files) : \E m \in Range(Registrations(f)) :
           m.name = OTHER_TOOL /\ m.name \notin KeysS
    /\ KeysS # {}

\* C8: the stored description is the captured description when that has at most
\* 100 characters, and its first 100 characters followed by "..." when it has
\* more; it never exceeds 103 characters.
C8_Excerpt ==
    SourceExtracted =>
        \A k \in KeysS :
            LET d == KeptRegistration(k).desc
                e == source_tools[k].description
            IN  /\ Len(d) <= 100 => e = d
                /\ Len(d) > 100 => e = SubSeq(d, 1, 100) \o <<".", ".", ".">>
                /\ Len(e) <= 103

C8_Witness ==
    /\ SourceExtracted
    /\ \E k \in KeysS :
        /\ Len(KeptRegistration(k).desc) = 101
        /\ Len(source_tools[k].description) = 103

\* C9: every identifier of keys(S) or keys(D) is in exactly one of notInSource,
\* undocumented and keys(S) \cap keys(D); tools in source = |undocumented| +
\* |keys(S) \cap keys(D)|, unique tools in docs = |notInSource| + |keys(S) \cap
\* keys(D)|, deprecated tools in source = |deprecatedInDocs| + the deprecated
\* identifiers of undocumented.
C9_Counts ==
    pc = "done" =>
        /\ \A k \in KeysS \cup KeysD :
               Cardinality({n \in 1..3 :
                   \/ n = 1 /\ k \in Range(not_in_source)
                   \/ n = 2 /\ k \in Range(not_documented)
                   \/ n = 3 /\ k \in Documented}) = 1
        /\ summary.in_source = Len(not_documented) + Cardinality(Documented)
        /\ summary.in_docs = Len(not_in_source) + Cardinality(Documented)
        /\ summary.deprecated =
               Len(deprecated_in_docs)
               + Cardinality({i \in 1..Len(not_documented) :
                                  source_tools[not_documented[i]].deprecated})

C9_Witness ==
    /\ pc = "done"
    /\ not_in_source # <<>>
    /\ deprecated_in_docs # <<>>
    /\ \E i \in 1..Len(not_documented) : source_tools[not_documented[i]].deprecated

\* the places of file f where a registration under a spectree__ name starts
PrefixedNameStarts(f) ==
    {i \in 1..Len(src_text[f]) :
        /\ NameMatchAt(src_text[f], i).start # 0
        /\ StartsWith(NameMatchAt(src_text[f], i).name, PREFIX)}

\* the entries of the list that come from file f
EntriesOf(f) == SelectSeq(tools, LAMBDA e : e.file = f)

\* DEPRECATED occurs in the text of f wholly before the first occurrence of name
MarkerBeforeFirst(f, name) ==
    LET first == Least({i \in 1..Len(src_text[f]) : Lit(src_text[f], i, name)})
    IN  \E q \in 1..Len(src_text[f]) :
            Lit(src_text[f], q, DEPRECATED) /\ q + Len(DEPRECATED) <= first

\* C10: extract-tool-names.py lists one entry per matched registration under a
\* spectree__ name, duplicates included, and flags an entry deprecated exactly
\* when DEPRECATED occurs in the file before the first occurrence of the name.
C10_NamesList ==
    pc = "names_done" =>
        /\ \A f \in Range(tool_files) :
               Len(EntriesOf(f)) = Cardinality(PrefixedNameStarts(f))
        /\ \A i \in 1..Len(tools) :
            /\ tools[i].file \in Range(tool_files)
            /\ StartsWith(tools[i].name, PREFIX)
            /\ tools[i].deprecated <=> MarkerBeforeFirst(tools[i].file, tools[i].name)

\* a name is listed twice, flagged by a marker that precedes it in the file,
\* while the tool whose own description holds the marker is not flagged
C10_Witness ==
    /\ pc = "names_done"
    /\ \E i, j \in 1..Len(tools) :
        /\ i # j
        /\ tools[i].name = tools[j].name
        /\ tools[i].file = tools[j].file
        /\ tools[i].deprecated
    /\ \E i \in 1..Len(tools) : tools[i].name = OLD_TOOL /\ ~tools[i].deprecated

====
